---- MODULE Spec2Model ----
(***************************************************************************)
(* Model of the AVM2 interpreter orchestrator (core/src/avm2.rs): the      *)
(* shared operand stack, the prototype cache, and the loading of bytecode  *)
(* containers with lazy or eager script initialization.                    *)
(***************************************************************************)
EXTENDS Integers, Sequences, FiniteSets, TLC

\* ---------------------------------------------------------------- bounds
MaxStack == 3
MaxArgs == 3
MaxBodyStack == 1
MaxScripts == 2
MaxLoads == 1
MaxGlobalsLoads == 2
MaxLen == 2

\* ---------------------------------------------------------------- values
Undefined == "undefined"
Null == "null"
Values == {Undefined, Null, "a", "b"}

\* the model holds at most one full container's worth of scripts at a time
MaxTotalScripts == MaxScripts

MethodKinds == {"Native", "Entry"}
Domains == {"global", "child"}
None == 0

VARIABLES
    stack,      \* Avm2.stack: the operand stack, top of stack last
    system_prototypes, \* Avm2.system_prototypes: None, or the id of the cached set
    globals,    \* Avm2.globals: the root domain
    gloads,     \* number of runs of the player-globals loader
    globals_loaded, \* observation: load_player_globals has completed successfully
    tunits,     \* the TranslationUnits created so far, in creation order
    scripts,    \* the Script instances constructed so far, in creation order
    defs,       \* per domain, the script defining each name
    frames,     \* the calls in progress, innermost last
    result,     \* what the last completed call returned to its caller
    call,       \* observation: the last entry-point call of the host and its inputs
    aborted,    \* the process has panicked
    log,        \* observation: instantiations and initializer runs since the last call of the host began
    last,       \* observation: the last stack operation, its input and result
    base,       \* observation: the stack when the current run of pushes began
    pushed,     \* observation: values pushed by the current run of pushes
    popped,     \* observation: values popped since the current run of pushes
    underflowed \* observation: a pop of the current run of stack operations found the stack empty

obs == <<last, base, pushed, popped, underflowed>>
avm == <<system_prototypes, globals, gloads, globals_loaded>>
loader == <<tunits, scripts, defs, frames, result, call, log>>
vars == <<stack, system_prototypes, globals, gloads, globals_loaded, tunits, scripts, defs,
          frames, result, call, aborted, log, last, base, pushed, popped,
          underflowed>>

NoOp == [op |-> "none", arg |-> 0, pre |-> <<>>, ret |-> <<>>]

\* Vec::pop: the vector without its last element
VecPop(s) == SubSeq(s, 1, Len(s) - 1)

PopValueNull(s) == IF Len(s) = 0 THEN Null ELSE s[Len(s)]

\* Avm2::pop, the returned value: the top of the stack, Undefined on underflow
PopValue(s) == IF Len(s) = 0 THEN Undefined ELSE s[Len(s)]

\* Avm2::pop, the stack it leaves
PopStack(s) == IF Len(s) = 0 THEN s ELSE VecPop(s)

PushStackFront(s, v) == <<v>> \o s

\* Avm2::push, the stack it leaves
PushStack(s, v) == Append(s, v)

RECURSIVE PopArgsLoopForward(_, _, _)
PopArgsLoopForward(s, args, j) ==
    IF j = 0 THEN <<args, s>>
    ELSE PopArgsLoopForward(PopStack(s),
                            [args EXCEPT ![Len(args) + 1 - j] = PopValue(s)], j - 1)

\* Avm2::pop_args: the loop over args.iter_mut().rev(); j is the slot being
\* filled, from arg_count down to 1.  Yields <<args, stack>>.
RECURSIVE PopArgsLoop(_, _, _)
PopArgsLoop(s, args, j) ==
    IF j = 0 THEN <<args, s>>
    ELSE PopArgsLoop(PopStack(s), [args EXCEPT ![j] = PopValue(s)], j - 1)

PopArgsOfAvailable(s, n) ==
    IF Len(s) < n THEN PopArgsLoop(s, [k \in 1..Len(s) |-> Undefined], Len(s))
    ELSE PopArgsLoop(s, [k \in 1..n |-> Undefined], n)

\* Avm2::pop_args: args is resized to arg_count Undefined values, then filled
PopArgsOf(s, n) == PopArgsLoop(s, [k \in 1..n |-> Undefined], n)

NoResult == [op |-> "none", status |-> "none", err |-> "", val |-> 0, sid |-> 0]
NoCall == [op |-> "other", ok |-> TRUE, lazy |-> FALSE]

\* Avm2::new: empty stack, the global domain, no system prototypes
Init ==
    /\ stack = <<>>
    /\ globals = "global"
    /\ system_prototypes = None
    /\ gloads = 0
    /\ globals_loaded = FALSE
    /\ tunits = <<>>
    /\ scripts = <<>>
    /\ defs = [d \in Domains |-> [i \in 0..(MaxScripts - 1) |-> None]]
    /\ frames = <<>>
    /\ result = NoResult
    /\ call = NoCall
    /\ aborted = FALSE
    /\ log = <<>>
    /\ last = NoOp
    /\ base = <<>>
    /\ pushed = <<>>
    /\ popped = <<>>
    /\ underflowed = FALSE

Push(v) ==
    /\ ~aborted
    /\ Len(stack) < MaxStack
    /\ stack' = PushStack(stack, v)
    /\ last' = [op |-> "push", arg |-> v, pre |-> stack, ret |-> <<>>]
    /\ IF popped = <<>>
       THEN /\ pushed' = Append(pushed, v)
            /\ base' = base
       ELSE /\ pushed' = <<v>>
            /\ base' = stack
    /\ popped' = <<>>
    /\ UNCHANGED <<avm, loader, aborted, underflowed>>

Pop ==
    /\ ~aborted
    /\ stack' = PopStack(stack)
    /\ last' = [op |-> "pop", arg |-> 0, pre |-> stack, ret |-> PopValue(stack)]
    /\ IF Len(popped) < Len(pushed)
       THEN /\ popped' = Append(popped, PopValue(stack))
            /\ UNCHANGED <<base, pushed>>
       ELSE /\ popped' = <<>>
            /\ pushed' = <<>>
            /\ base' = stack'
    /\ underflowed' = (underflowed \/ Len(stack) = 0)
    /\ UNCHANGED <<avm, loader, aborted>>

PopArgs(n) ==
    /\ ~aborted
    /\ underflowed' = (underflowed \/ Len(stack) < n)
    /\ stack' = PopArgsOf(stack, n)[2]
    /\ last' = [op |-> "pop_args", arg |-> n, pre |-> stack,
                ret |-> PopArgsOf(stack, n)[1]]
    /\ base' = stack'
    /\ pushed' = <<>>
    /\ popped' = <<>>
    /\ UNCHANGED <<avm, loader, aborted>>

\* ------------------------------------------------------------- the loader

OtherKind(kind) == IF kind = "Native" THEN "Entry" ELSE "Native"

\* The byte strings handed to load_abc, by what the reader makes of them:
\* malformed, or a container of n scripts with the kind of each initializer
\* (the kinds alternate from the kind of script 0).
Containers ==
    {[ok |-> FALSE, n |-> 0, kinds |-> <<>>]} \cup
    {[ok |-> TRUE, n |-> 0, kinds |-> <<>>]} \cup
    UNION {{[ok |-> TRUE, n |-> k,
             kinds |-> [i \in 0..(k - 1) |->
                          IF i % 2 = 0 THEN first ELSE OtherKind(first)]] :
                first \in MethodKinds} : k \in 1..MaxScripts}

ParseOkAlways(abc) == TRUE

\* Reader::read succeeds exactly on well-formed containers
ParseOk(abc) == abc.ok

WellFormed == {abc \in Containers : abc.ok}

\* TranslationUnit::from_abc: the parsed file, its domain, no script cached
\* (seen is an observation: per index, the Scripts load_script has returned)
FromAbc(abc, d) ==
    [n |-> abc.n, kinds |-> abc.kinds, domain |-> d,
     cache |-> [i \in 0..(abc.n - 1) |-> None],
     seen |-> [i \in 0..(abc.n - 1) |-> {}]]

NewScript(t, idx, kind) ==
    [tu |-> t, index |-> idx, kind |-> kind, initialized |-> FALSE,
     globals |-> None, native |-> 0, entry |-> 0]

LoadScriptUncached(tus, scr, df, t, idx) ==
    [sid |-> Len(scr) + 1,
     tunits |-> [tus EXCEPT ![t].cache[idx] = Len(scr) + 1],
     scripts |-> Append(scr, NewScript(t, idx, tus[t].kinds[idx])),
     defs |-> [df EXCEPT ![tus[t].domain][idx] = Len(scr) + 1]]

\* TranslationUnit::load_script: the cached Script of the index, or a new
\* Script that is cached and whose definitions are installed in the domain.
LoadScript(tus, scr, df, t, idx) ==
    IF tus[t].cache[idx] # None
    THEN [sid |-> tus[t].cache[idx], tunits |-> tus, scripts |-> scr, defs |-> df]
    ELSE [sid |-> Len(scr) + 1,
          tunits |-> [tus EXCEPT ![t].cache[idx] = Len(scr) + 1],
          scripts |-> Append(scr, NewScript(t, idx, tus[t].kinds[idx])),
          defs |-> [df EXCEPT ![tus[t].domain][idx] = Len(scr) + 1]]

\* the global object a script builds: numbered per script, None before the first
FreshObject(scr, sid) == scr[sid].globals + 1

\* Script::globals, the test that decides whether the initializer is run
MustInitialize(scr, sid) == ~scr[sid].initialized

\* Script::globals before the initializer is entered: marks the script
\* initialized and creates its global object
MarkInitialized(scr, sid) ==
    [scr EXCEPT ![sid].initialized = TRUE, ![sid].globals = FreshObject(scr, sid)]

EnterInitializerSwapped(scr, sid) ==
    IF scr[sid].kind = "Native"
    THEN [scr EXCEPT ![sid].entry = @ + 1]
    ELSE [scr EXCEPT ![sid].native = @ + 1]

EnterInitializerBoth(scr, sid) ==
    [scr EXCEPT ![sid].native = @ + 1, ![sid].entry = @ + 1]

\* Avm2::run_script_initializer, the match on the method: a native method is
\* called directly, a bytecode method is run through the stack frame loop
EnterInitializer(scr, sid) ==
    IF scr[sid].kind = "Native"
    THEN [scr EXCEPT ![sid].native = @ + 1]
    ELSE [scr EXCEPT ![sid].entry = @ + 1]

RunsOf(scr, sid) == scr[sid].native + scr[sid].entry
Runs(sid) == RunsOf(scripts, sid)

\* the frame of a running initializer; args is the argument list it was
\* invoked with, `&[]` in run_script_initializer
InitFrame(sid) ==
    [kind |-> "init", tu |-> 0, i |-> 0, lazy |-> FALSE, sid |-> sid, args |-> <<>>]
LoadFrame(t, n, lazy) == [kind |-> "load_abc", tu |-> t, i |-> n, lazy |-> lazy, sid |-> 0]

Top == frames[Len(frames)]
Idle == frames = <<>>
InBody == frames # <<>> /\ Top.kind \in {"init", "call"}
InLoad == frames # <<>> /\ Top.kind = "load_abc"

Ok(op, v) == [op |-> op, status |-> "Ok", err |-> "", val |-> v, sid |-> 0]
Err(op, e) == [op |-> op, status |-> "Err", err |-> e, val |-> 0, sid |-> 0]

\* Script::globals returning Ok(globals) for script sid
OkGlobals(scr, sid) ==
    [op |-> "globals", status |-> "Ok", err |-> "", val |-> scr[sid].globals,
     sid |-> sid]

ResetObs ==
    /\ last' = NoOp
    /\ base' = stack'
    /\ pushed' = <<>>
    /\ popped' = <<>>
    /\ underflowed' = FALSE

NextIndexAscending(f) == tunits[f.tu].n - f.i

\* the loop of load_abc over (0..scripts.len()).rev(): the index handled
\* when f.i iterations remain
NextIndex(f) == f.i - 1

ForceInitAlways(f) == TRUE
ForceInitNever(f) == FALSE

\* load_abc: `if !lazy_init`
ForceInit(f) == ~f.lazy


\* Avm2::load_abc up to the loop: read the container, make the TranslationUnit
LoadAbc(abc, lazy, d) ==
    /\ ~aborted
    /\ Idle
    /\ ParseOk(abc) => /\ Len(tunits) < MaxLoads
                        /\ Len(scripts) + abc.n <= MaxTotalScripts
    /\ call' = [op |-> "load_abc", ok |-> abc.ok, lazy |-> lazy]
    /\ IF ~ParseOk(abc)
       THEN /\ result' = Err("load_abc", "parse")
            /\ UNCHANGED <<tunits, frames, log>>
       ELSE /\ tunits' = Append(tunits, FromAbc(abc, d))
            /\ frames' = <<LoadFrame(Len(tunits) + 1, abc.n, lazy)>>
            /\ log' = <<>>
            /\ result' = NoResult
    /\ UNCHANGED <<stack, avm, scripts, defs, aborted>>
    /\ ResetObs

UnwindNothing(fr) == fr

\* the `?` on load_script and on Script::globals in load_abc: an error leaves
\* the loop and the call at once, nothing of the call stays in progress
Unwind(fr) == <<>>

\* One iteration of the loop of load_abc: load_script, then, unless lazy,
\* Script::globals, which enters the initializer of the new script.
LoadStep(scriptOk, actOk) ==
    /\ ~aborted
    /\ InLoad
    /\ Top.i > 0
    /\ LET f == Top
           idx == NextIndex(f)
           ls == LoadScript(tunits, scripts, defs, f.tu, idx)
           rest == [frames EXCEPT ![Len(frames)].i = f.i - 1]
       IN  IF ~scriptOk
           THEN /\ frames' = Unwind(rest)
                /\ result' = Err("load_abc", "script")
                /\ UNCHANGED <<tunits, scripts, defs, log>>
           ELSE /\ tunits' = [ls.tunits EXCEPT ![f.tu].seen[idx] = @ \cup {ls.sid}]
                /\ defs' = ls.defs
                /\ IF ~ForceInit(f)
                   THEN /\ scripts' = ls.scripts
                        /\ log' = Append(log, [ev |-> "inst", sid |-> ls.sid])
                        /\ frames' = rest
                        /\ UNCHANGED result
                   ELSE IF ~MustInitialize(ls.scripts, ls.sid)
                   THEN /\ scripts' = ls.scripts
                        /\ log' = Append(log, [ev |-> "inst", sid |-> ls.sid])
                        /\ frames' = rest
                        /\ UNCHANGED result
                   ELSE IF ~actOk
                   THEN /\ scripts' = MarkInitialized(ls.scripts, ls.sid)
                        /\ log' = Append(log, [ev |-> "inst", sid |-> ls.sid])
                        /\ frames' = Unwind(rest)
                        /\ result' = Err("load_abc", "activation")
                   ELSE /\ scripts' = EnterInitializer(
                                          MarkInitialized(ls.scripts, ls.sid), ls.sid)
                        /\ log' = log \o <<[ev |-> "inst", sid |-> ls.sid],
                                           [ev |-> "init", sid |-> ls.sid]>>
                        /\ frames' = Append(rest, InitFrame(ls.sid))
                        /\ UNCHANGED result
    /\ UNCHANGED <<stack, avm, call, aborted>>
    /\ ResetObs

\* Avm2::load_abc after the loop: Ok(())
LoadReturn ==
    /\ ~aborted
    /\ InLoad
    /\ Top.i = 0
    /\ frames' = <<>>
    /\ result' = Ok("load_abc", 0)
    /\ UNCHANGED <<stack, avm, tunits, scripts, defs, call, aborted, log>>
    /\ ResetObs

\* Script::globals requested by the host or by running code
Globals(sid, actOk) ==
    /\ ~aborted
    /\ Idle \/ InBody
    /\ sid \in 1..Len(scripts)
    /\ call' = IF Idle THEN NoCall ELSE call
    /\ IF ~MustInitialize(scripts, sid)
       THEN /\ result' = OkGlobals(scripts, sid)
            /\ log' = IF Idle THEN <<>> ELSE log
            /\ UNCHANGED <<scripts, frames>>
       ELSE IF ~actOk
       THEN /\ scripts' = MarkInitialized(scripts, sid)
            /\ result' = Err("globals", "activation")
            /\ log' = IF Idle THEN <<>> ELSE log
            /\ UNCHANGED frames
       ELSE /\ scripts' = EnterInitializer(MarkInitialized(scripts, sid), sid)
            /\ frames' = Append(frames, InitFrame(sid))
            /\ log' = IF Idle THEN <<>> ELSE Append(log, [ev |-> "init", sid |-> sid])
            /\ UNCHANGED result
    /\ UNCHANGED <<stack, avm, tunits, defs, aborted>>
    /\ ResetObs

\* The initializer returns: run_script_initializer returns its result to
\* Script::globals, which returns the global object or the error; load_abc
\* propagates an error with `?` and otherwise goes on with its loop.
InitReturn(ok) ==
    /\ ~aborted
    /\ InBody
    /\ Top.kind = "init"
    /\ LET sid == Top.sid
           below == SubSeq(frames, 1, Len(frames) - 1)
           toLoad == below # <<>> /\ below[Len(below)].kind = "load_abc"
       IN  /\ frames' = IF toLoad /\ ~ok THEN Unwind(below) ELSE below
           /\ result' = IF toLoad
                        THEN (IF ok THEN result ELSE Err("load_abc", "init"))
                        ELSE (IF ok THEN OkGlobals(scripts, sid)
                              ELSE Err("globals", "init"))
    /\ UNCHANGED <<stack, avm, tunits, scripts, defs, call, aborted, log>>
    /\ ResetObs

\* What one run of the loader called by Avm2::load_player_globals can do, as
\* far as the interpreter sees it: assign the prototype cache or not, and
\* succeed or fail.  The hook takes whatever the loader does.
LoaderRuns == [assigns : BOOLEAN, ok : BOOLEAN]

\* The loader the specification describes: it populates the cache exactly
\* once, in the run that succeeds while the cache is absent; a failing run
\* and a run that finds the cache present leave it as it is
SpecLoaderRuns(sp) == {run \in LoaderRuns : run.assigns = (run.ok /\ sp = None)}

\* the cache a run of the loader builds when it assigns one: a new object
\* per run, numbered by the run
CacheOfRun(n) == n

\* Avm2::load_player_globals: runs the loader against the global domain and
\* returns its result; the hook itself neither assigns nor guards the cache,
\* which ends up as the loader's run leaves it
LoadPlayerGlobals(run) ==
    /\ ~aborted
    /\ Idle
    /\ gloads < MaxGlobalsLoads
    /\ gloads' = gloads + 1
    /\ call' = NoCall
    /\ system_prototypes' = IF run.assigns THEN CacheOfRun(gloads + 1)
                            ELSE system_prototypes
    /\ globals_loaded' = (globals_loaded \/ run.ok)
    /\ result' = IF run.ok THEN Ok("load_player_globals", 0)
                 ELSE Err("load_player_globals", "globals")
    /\ UNCHANGED <<stack, globals, tunits, scripts, defs, frames, aborted, log>>
    /\ ResetObs

UnwrapNeverPanics(sp) == FALSE

\* Option::unwrap of the prototype cache: a panic when it is None
UnwrapPanics(sp) == sp = None

TakeCache(sp) == None

\* Option::as_ref: the cache is borrowed and stays in the interpreter
AsRefCache(sp) == sp

\* Avm2::prototypes
Prototypes ==
    /\ ~aborted
    /\ Idle \/ InBody
    /\ call' = IF Idle THEN NoCall ELSE call
    /\ IF UnwrapPanics(system_prototypes)
       THEN /\ aborted' = TRUE
            /\ result' = NoResult
       ELSE /\ aborted' = FALSE
            /\ result' = Ok("prototypes", system_prototypes)
    /\ system_prototypes' = AsRefCache(system_prototypes)
    /\ UNCHANGED <<stack, globals, gloads, globals_loaded, tunits, scripts, defs,
                   frames, log>>
    /\ last' = [op |-> "prototypes", arg |-> 0, pre |-> stack, ret |-> <<>>]
    /\ base' = stack
    /\ pushed' = <<>>
    /\ popped' = <<>>
    /\ underflowed' = FALSE

\* stack operations of the code an initializer runs
BodyValues == {"a"}

\* Avm2::push called by the code an initializer runs
BodyPush(v) ==
    /\ ~aborted
    /\ InBody
    /\ Len(stack) < MaxBodyStack
    /\ stack' = PushStack(stack, v)
    /\ UNCHANGED <<avm, loader, aborted, obs>>

\* Avm2::pop called by the code an initializer runs
BodyPop ==
    /\ ~aborted
    /\ InBody
    /\ stack' = PopStack(stack)
    /\ UNCHANGED <<avm, loader, aborted, obs>>

Next ==
    \/ \E abc \in Containers, lazy \in BOOLEAN, d \in Domains : LoadAbc(abc, lazy, d)
    \/ \E scriptOk \in BOOLEAN, actOk \in BOOLEAN : LoadStep(scriptOk, actOk)
    \/ LoadReturn
    \/ \E sid \in 1..MaxTotalScripts, actOk \in BOOLEAN : Globals(sid, actOk)
    \/ \E ok \in BOOLEAN : InitReturn(ok)
    \/ \E v \in BodyValues : BodyPush(v)
    \/ BodyPop

Spec == Init /\ [][Next]_vars

\* The interpreter's own fields alone: the operand stack and the prototype cache
AvmNext ==
    \/ \E v \in Values : Push(v)
    \/ Pop
    \/ \E n \in 0..MaxArgs : PopArgs(n)
    \/ \E run \in LoaderRuns : LoadPlayerGlobals(run)
    \/ Prototypes

AvmSpec == Init /\ [][AvmNext]_vars

\* Avm2::load_player_globals with the loader of the specification behind it
SpecLoadPlayerGlobals(run) ==
    /\ run \in SpecLoaderRuns(system_prototypes)
    /\ LoadPlayerGlobals(run)

\* The same operations with the loader of the specification behind the hook
SpecLoaderNext ==
    \/ \E v \in Values : Push(v)
    \/ Pop
    \/ \E n \in 0..MaxArgs : PopArgs(n)
    \/ \E run \in LoaderRuns : SpecLoadPlayerGlobals(run)
    \/ Prototypes

SpecLoaderSpec == Init /\ [][SpecLoaderNext]_vars

\* ------------------------------------------------------------ callables

\* The objects handed to run_stack_frame_for_callable: the target, callable
\* or not, and the receiver, absent or an object with or without a prototype.
Targets == {[callable |-> c] : c \in BOOLEAN}
NoReceiver == [some |-> FALSE, proto |-> None]
Receivers == {NoReceiver} \cup {[some |-> TRUE, proto |-> p] : p \in {None, 1}}
ArgValues == {Undefined, "a"}
ArgLists == UNION {[1..n -> ArgValues] : n \in 0..MaxArgs}

\* TObject::call on an object without the call capability is an error
IsCallable(target) == target.callable

ProtoOfNone(recv) == None

\* run_stack_frame_for_callable: reciever.and_then(|r| r.proto())
ProtoOf(recv) == IF recv.some THEN recv.proto ELSE None

CallFrame(recv, args, proto, entry) ==
    [kind |-> "call", recv |-> recv, args |-> args, proto |-> proto, entry |-> entry]

\* run_stack_frame_for_callable: `callable.call(..)?; Ok(())`, the value of
\* the call is dropped
CallResult(v) == Ok("run_stack_frame_for_callable", 0)

\* Avm2::run_stack_frame_for_callable up to the point where the callable
\* runs: an activation from nothing, then callable.call with the receiver,
\* the arguments and the receiver's prototype
CallCallable(target, recv, args) ==
    /\ ~aborted
    /\ Idle
    /\ IF ~IsCallable(target)
       THEN /\ call' = [op |-> "call", callable |-> FALSE, recv |-> recv,
                        args |-> args, invoked |-> <<>>, returned |-> "none"]
            /\ result' = Err("run_stack_frame_for_callable", "not_callable")
            /\ UNCHANGED frames
       ELSE /\ call' = [op |-> "call", callable |-> TRUE, recv |-> recv,
                        args |-> args,
                        invoked |-> <<[recv |-> recv, args |-> args,
                                       proto |-> ProtoOf(recv)]>>,
                        returned |-> "none"]
            /\ result' = NoResult
            /\ frames' = <<CallFrame(recv, args, ProtoOf(recv), stack)>>
    /\ UNCHANGED <<stack, avm, tunits, scripts, defs, aborted, log>>
    /\ ResetObs

\* The callable returns a value or fails: run_stack_frame_for_callable
\* propagates the failure with `?` and otherwise returns Ok(())
CallReturn(ok, v) ==
    /\ ~aborted
    /\ frames # <<>>
    /\ Top.kind = "call"
    /\ frames' = SubSeq(frames, 1, Len(frames) - 1)
    /\ call' = [call EXCEPT !.returned = IF ok THEN v ELSE "error"]
    /\ result' = IF ok THEN CallResult(v)
                 ELSE Err("run_stack_frame_for_callable", "call")
    /\ UNCHANGED <<stack, avm, tunits, scripts, defs, aborted, log>>
    /\ ResetObs

CallNext ==
    \/ \E target \in Targets, recv \in Receivers, args \in ArgLists :
            CallCallable(target, recv, args)
    \/ \E ok \in BOOLEAN, v \in ArgValues : CallReturn(ok, v)
    \/ \E v \in BodyValues : BodyPush(v)
    \/ BodyPop

CallSpec == Init /\ [][CallNext]_vars

\* ------------------------------------------------------------ Avm1String

\* Text content: the strings over a two-letter alphabet, as sequences
Alphabet == {"x", "y"}
Texts == UNION {[1..n -> Alphabet] : n \in 0..MaxLen}

\* Avm1String::new: the text copied into a heap-owned String
New(string) == [source |-> "Owned", str |-> string]

\* From<&'static str>: the text kept by reference
FromStatic(str) == [source |-> "Static", str |-> str]

Avm1Strings == {New(t) : t \in Texts} \cup {FromStatic(t) : t \in Texts}

DerefOwnedOnly(s) == IF s.source = "Owned" THEN s.str ELSE <<>>

\* Deref for Avm1String: the text of either form
Deref(s) ==
    CASE s.source = "Owned" -> s.str
      [] s.source = "Static" -> s.str

\* Avm1String::as_str: `self`, coerced through Deref
AsStr(s) == Deref(s)

\* the full-range slice `[..]` of a str
Slice(t) == SubSeq(t, 1, Len(t))

\* impl_eq!: PartialEq<str> for Avm1String, `&self[..] == &other[..]` with
\* self an Avm1String sliced through Deref
EqStr(self, other) == Slice(Deref(self)) = Slice(other)

\* impl_eq!: PartialEq<Avm1String> for str, the mirrored implementation
StrEq(self, other) == Slice(self) = Slice(Deref(other))

\* Two text values compared in both directions: a against the text of b,
\* and the text of b against a
TextEq(a, b) ==
    /\ ~aborted
    /\ Idle
    /\ call' = [op |-> "eq", lhs |-> a, rhs |-> b]
    /\ result' = [op |-> "eq", status |-> "ok", err |-> "",
                  val |-> <<EqStr(a, AsStr(b)), StrEq(AsStr(b), a)>>, sid |-> 0]
    /\ UNCHANGED <<stack, avm, tunits, scripts, defs, frames, aborted, log, obs>>

TextNext == \E a \in Avm1Strings, b \in Avm1Strings : TextEq(a, b)

TextSpec == Init /\ [][TextNext]_vars

\* ------------------------------------------------------------ domains

Names == 0..(MaxScripts - 1)

\* the parent of a domain: the global domain has none
HasParent(d) == d # "global"
Parent(d) == "global"

RECURSIVE LookupParentFirst(_, _, _)
LookupParentFirst(df, d, name) ==
    IF HasParent(d) /\ LookupParentFirst(df, Parent(d), name) # None
    THEN LookupParentFirst(df, Parent(d), name)
    ELSE df[d][name]

\* Domain lookup of a name: the local binding, else the parent's answer,
\* else (no parent) not found
RECURSIVE Lookup(_, _, _)
Lookup(df, d, name) ==
    IF df[d][name] # None THEN df[d][name]
    ELSE IF HasParent(d) THEN Lookup(df, Parent(d), name)
    ELSE None

\* Any bindings the domains can hold: each name unbound or bound to a script
DomainInit ==
    /\ stack = <<>>
    /\ globals = "global"
    /\ system_prototypes = None
    /\ gloads = 0
    /\ globals_loaded = FALSE
    /\ tunits = <<>>
    /\ scripts = <<>>
    /\ defs \in [Domains -> [Names -> {None} \cup (1..MaxScripts)]]
    /\ frames = <<>>
    /\ result = NoResult
    /\ call = NoCall
    /\ aborted = FALSE
    /\ log = <<>>
    /\ last = NoOp
    /\ base = <<>>
    /\ pushed = <<>>
    /\ popped = <<>>
    /\ underflowed = FALSE

DomainLookup(d, name) ==
    /\ ~aborted
    /\ Idle
    /\ call' = [op |-> "lookup", domain |-> d, name |-> name]
    /\ result' = [op |-> "lookup", status |-> "ok", err |-> "",
                  val |-> Lookup(defs, d, name), sid |-> 0]
    /\ UNCHANGED <<stack, avm, tunits, scripts, defs, frames, aborted, log, obs>>

DomainNext == \E d \in Domains, name \in Names : DomainLookup(d, name)

DomainSpec == DomainInit /\ [][DomainNext]_vars

\* TranslationUnits alone: load_script requested any number of times
UnitInit ==
    /\ stack = <<>>
    /\ globals = "global"
    /\ system_prototypes = None
    /\ gloads = 0
    /\ globals_loaded = FALSE
    /\ tunits \in [1..(MaxLoads + 1) -> {FromAbc(abc, "global") : abc \in WellFormed}]
    /\ scripts = <<>>
    /\ defs = [d \in Domains |-> [i \in 0..(MaxScripts - 1) |-> None]]
    /\ frames = <<>>
    /\ result = NoResult
    /\ call = NoCall
    /\ aborted = FALSE
    /\ log = <<>>
    /\ last = NoOp
    /\ base = <<>>
    /\ pushed = <<>>
    /\ popped = <<>>
    /\ underflowed = FALSE

\* TranslationUnit::load_script called on unit t for index idx
LoadScriptReq(t, idx, ok) ==
    /\ ~aborted
    /\ idx \in 0..(tunits[t].n - 1)
    /\ LET ls == LoadScript(tunits, scripts, defs, t, idx)
       IN  IF ~ok
           THEN /\ result' = Err("load_script", "script")
                /\ UNCHANGED <<tunits, scripts, defs>>
           ELSE /\ ls.sid <= MaxTotalScripts
                /\ tunits' = [ls.tunits EXCEPT ![t].seen[idx] = @ \cup {ls.sid}]
                /\ scripts' = ls.scripts
                /\ defs' = ls.defs
                /\ result' = Ok("load_script", ls.sid)
    /\ UNCHANGED <<stack, avm, frames, call, aborted, log>>
    /\ ResetObs

UnitNext ==
    \E t \in 1..Len(tunits), idx \in 0..(MaxScripts - 1), ok \in BOOLEAN :
        LoadScriptReq(t, idx, ok)

UnitSpec == UnitInit /\ [][UnitNext]_vars

\* ------------------------------------------------------------ properties

\* C1: N consecutive pushes followed by N consecutive pops return the pushed
\* values in exact reverse order and leave the stack the pushes started from
\* (stated for every prefix of the pops: after k pops the k values popped are
\* the last k pushed, newest first, and the stack is the starting stack with
\* the remaining pushes on top).
PushPopReverse ==
    /\ Len(popped) <= Len(pushed)
    /\ \A k \in 1..Len(popped) : popped[k] = pushed[Len(pushed) + 1 - k]
    /\ stack = base \o SubSeq(pushed, 1, Len(pushed) - Len(popped))
    /\ (Len(popped) = Len(pushed) => stack = base)

PushPopReverseWitness ==
    /\ Len(pushed) >= 2
    /\ Len(popped) = Len(pushed)
    /\ Len(base) >= 1
    /\ pushed[1] # pushed[2]

\* C2: pop on an empty stack returns undefined, does not abort and leaves the
\* stack empty; afterwards a push followed by a pop returns the pushed value.
EmptyPopUndefined ==
    /\ (last.op = "pop" /\ last.pre = <<>>) =>
            (last.ret = Undefined /\ stack = <<>> /\ ~aborted)
    /\ (underflowed /\ Len(pushed) >= 1 /\ Len(popped) >= 1) =>
            popped[1] = pushed[Len(pushed)]

EmptyPopUndefinedWitness ==
    /\ underflowed
    /\ base = <<>>
    /\ Len(pushed) = 1
    /\ popped = pushed
    /\ pushed[1] # Undefined
    /\ last.op = "pop"

\* C3: pop_args(n) on a stack of at least n values returns the top n values
\* in push order, removes exactly those, and leaves the values below in
\* place; pop_args(0) returns the empty list and leaves the stack unchanged.
PopArgsInOrder ==
    (last.op = "pop_args" /\ Len(last.pre) >= last.arg) =>
        /\ Len(last.ret) = last.arg
        /\ \A k \in 1..last.arg :
               last.ret[k] = last.pre[Len(last.pre) - last.arg + k]
        /\ Len(stack) = Len(last.pre) - last.arg
        /\ \A k \in 1..Len(stack) : stack[k] = last.pre[k]
        /\ (last.arg = 0 => last.ret = <<>> /\ stack = last.pre)

PopArgsInOrderWitness ==
    /\ last.op = "pop_args"
    /\ last.arg = 2
    /\ Len(last.pre) = 3
    /\ last.pre[2] # last.pre[3]
    /\ last.ret = <<last.pre[2], last.pre[3]>>

\* the instantiations / initializer runs recorded since the load began
InstEvents == SelectSeq(log, LAMBDA e : e.ev = "inst")
InitEventsOf(t) == SelectSeq(log, LAMBDA e : e.ev = "init" /\ scripts[e.sid].tu = t)
LoadCalled == call.op = "load_abc" /\ call.ok
LoadedUnit == Len(tunits)
LoadSucceeded == LoadCalled /\ result = Ok("load_abc", 0)

\* C4: load_abc instantiates the scripts of its container in strictly
\* descending index order, each index exactly once: the j-th instantiation of
\* the call is that of index n - j, and a call that returns has made n of them.
DescendingInstantiation ==
    LoadCalled =>
        /\ \A j \in 1..Len(InstEvents) :
              /\ scripts[InstEvents[j].sid].tu = LoadedUnit
              /\ scripts[InstEvents[j].sid].index = tunits[LoadedUnit].n - j
        /\ Len(InstEvents) <= tunits[LoadedUnit].n
        /\ (LoadSucceeded => Len(InstEvents) = tunits[LoadedUnit].n)

DescendingInstantiationWitness ==
    /\ LoadSucceeded
    /\ Len(InstEvents) >= 2
    /\ scripts[InstEvents[1].sid].index > scripts[InstEvents[2].sid].index

\* C5: a lazy load_abc runs no initializer: while it runs and when it returns
\* its scripts are uninitialized, and when it returns all are instantiated; the
\* initializer of a script that load_abc has left behind runs only in a step
\* that is not load_abc's and that takes the script from uninitialized to
\* initialized (the first request of its globals).
LazyLoadHolds ==
    (LoadCalled /\ call.lazy) =>
        /\ \A j \in 1..Len(log) : log[j].ev # "init"
        /\ \A s \in 1..Len(scripts) :
              scripts[s].tu = LoadedUnit => ~scripts[s].initialized /\ Runs(s) = 0
        /\ (LoadSucceeded =>
              \A i \in 0..(tunits[LoadedUnit].n - 1) : tunits[LoadedUnit].cache[i] # None)

LazyRunStep ==
    \A s \in 1..Len(scripts) :
        RunsOf(scripts', s) # Runs(s) =>
            /\ ~InLoad
            /\ ~scripts[s].initialized
            /\ scripts'[s].initialized
            /\ RunsOf(scripts', s) = Runs(s) + 1
            /\ frames' = Append(frames, InitFrame(s))

LazyInitDeferred == [][LazyLoadHolds' /\ LazyRunStep]_vars

LazyInitDeferredWitness ==
    /\ Idle
    /\ \E s, u \in 1..Len(scripts) :
          /\ s # u
          /\ scripts[u].tu = scripts[s].tu
          /\ Runs(s) = 1
          /\ result = OkGlobals(scripts, s)
          /\ ~scripts[u].initialized

\* C6: when an eager load_abc returns successfully every script of the
\* container has had its initializer run, and the initializers of the
\* container were entered in descending index order.
EagerInitForced ==
    (LoadCalled /\ ~call.lazy) =>
        /\ \A j \in 1..Len(InitEventsOf(LoadedUnit)) :
              scripts[InitEventsOf(LoadedUnit)[j].sid].index = tunits[LoadedUnit].n - j
        /\ (LoadSucceeded =>
              /\ Len(InitEventsOf(LoadedUnit)) = tunits[LoadedUnit].n
              /\ \A i \in 0..(tunits[LoadedUnit].n - 1) :
                    /\ tunits[LoadedUnit].cache[i] # None
                    /\ scripts[tunits[LoadedUnit].cache[i]].initialized
                    /\ Runs(tunits[LoadedUnit].cache[i]) = 1)

EagerInitForcedWitness ==
    /\ LoadSucceeded
    /\ ~call.lazy
    /\ tunits[LoadedUnit].n >= 2
    /\ Len(InitEventsOf(LoadedUnit)) = tunits[LoadedUnit].n

Running(s) == \E k \in 1..Len(frames) : frames[k].kind = "init" /\ frames[k].sid = s

\* C7: whatever requests are made of a script's globals, its initializer
\* runs at most once and all requests return the same global object: the
\* object a request returns is the script's global object, which, once built,
\* is never replaced.
InitializerOnceStep ==
    \A s \in 1..Len(scripts') :
        /\ RunsOf(scripts', s) <= 1
        /\ (RunsOf(scripts', s) = 1 => scripts'[s].initialized)
        /\ (s <= Len(scripts) /\ scripts[s].globals # None) =>
                scripts'[s].globals = scripts[s].globals
        /\ (result'.op = "globals" /\ result'.status = "Ok" /\ result'.sid = s) =>
                (result'.val = scripts'[s].globals /\ result'.val # None)

InitializerAtMostOnce == [][InitializerOnceStep]_vars

InitializerAtMostOnceWitness ==
    \E s \in 1..Len(scripts) :
        /\ Running(s)
        /\ frames[1].kind = "load_abc"
        /\ result = OkGlobals(scripts, s)
        /\ Runs(s) = 1

\* C8: load_script of one TranslationUnit returns the same Script for the
\* same index every time, and different Scripts for different indices.
SameScriptPerIndex ==
    \A t \in 1..Len(tunits) : \A i \in 0..(tunits[t].n - 1) :
        /\ Cardinality(tunits[t].seen[i]) <= 1
        /\ tunits[t].seen[i] \subseteq {tunits[t].cache[i]}
        /\ \A j \in 0..(tunits[t].n - 1) :
              i # j => tunits[t].seen[i] \cap tunits[t].seen[j] = {}
        /\ \A sid \in tunits[t].seen[i] :
              scripts[sid].tu = t /\ scripts[sid].index = i

SameScriptPerIndexWitness ==
    /\ result.op = "load_script"
    /\ result.status = "Ok"
    /\ result.val < Len(scripts)
    /\ \E t \in 1..Len(tunits) :
          /\ tunits[t].n >= 2
          /\ \A i \in 0..(tunits[t].n - 1) : tunits[t].seen[i] # {}

\* C9: load_abc on bytes that are not a well-formed container returns the
\* parse error and creates no TranslationUnit, instantiates no script, runs no
\* initializer, and leaves the domains and the operand stack as they were.
ParseErrorStep ==
    (Idle /\ call'.op = "load_abc" /\ ~call'.ok) =>
        /\ result' = Err("load_abc", "parse")
        /\ UNCHANGED <<tunits, scripts, defs, stack, frames>>

ParseErrorLeavesNothing == [][ParseErrorStep]_vars

ParseErrorLeavesNothingWitness ==
    /\ call.op = "load_abc"
    /\ ~call.ok
    /\ result = Err("load_abc", "parse")
    /\ Len(tunits) >= 1
    /\ Len(scripts) >= 1
    /\ stack # <<>>

\* C10: with the loader of the specification, prototypes() aborts the process
\* whenever load_player_globals has not yet completed successfully, and
\* returns the cached prototypes once it has.
PrototypesNeedGlobals ==
    /\ (last.op = "prototypes" /\ ~globals_loaded) => aborted
    /\ (last.op = "prototypes" /\ globals_loaded) =>
            /\ ~aborted
            /\ system_prototypes # None
            /\ result = Ok("prototypes", system_prototypes)
    /\ aborted => ~globals_loaded

PrototypesNeedGlobalsWitness ==
    /\ last.op = "prototypes"
    /\ aborted
    /\ gloads >= 1
    /\ ~globals_loaded

\* C11: the operand stack is balanced across a call made through an entry
\* point: when run_stack_frame_for_callable returns, the stack is the stack
\* the call began with.
BalancedStep ==
    (frames # <<>> /\ Top.kind = "call" /\ Len(frames') < Len(frames)) =>
        stack' = Top.entry

StackBalancedAcrossCalls == [][BalancedStep]_vars

\* C15: run_stack_frame_for_callable invokes a callable target exactly once,
\* with the receiver and arguments given and the receiver's prototype (none
\* without a receiver); it returns an error when the target is not callable
\* or the call fails, and Ok(()) otherwise, whatever value the call returned.
CallableInvokedOnce ==
    call.op = "call" =>
        /\ call.callable =>
              /\ Len(call.invoked) = 1
              /\ call.invoked[1].recv = call.recv
              /\ call.invoked[1].args = call.args
              /\ call.invoked[1].proto =
                    (IF call.recv.some THEN call.recv.proto ELSE None)
              /\ (~Idle => /\ Top.recv = call.recv
                           /\ Top.args = call.args
                           /\ Top.proto = call.invoked[1].proto)
              /\ (Idle => IF call.returned = "error"
                          THEN result = Err("run_stack_frame_for_callable", "call")
                          ELSE result = Ok("run_stack_frame_for_callable", 0))
        /\ ~call.callable =>
              /\ call.invoked = <<>>
              /\ Idle
              /\ result = Err("run_stack_frame_for_callable", "not_callable")

CallableInvokedOnceWitness ==
    /\ call.op = "call"
    /\ call.callable
    /\ Idle
    /\ call.recv.some
    /\ call.recv.proto # None
    /\ call.invoked[1].proto = call.recv.proto
    /\ call.args # <<>>
    /\ call.returned = "a"
    /\ result = Ok("run_stack_frame_for_callable", 0)

\* C12: text equality depends on the characters only: two values with the
\* same characters compare equal in both directions whatever their backing
\* forms, and two values with different characters compare unequal.
TextEqualityByContent ==
    call.op = "eq" =>
        LET same == call.lhs.str = call.rhs.str
        IN  /\ result.val[1] = same
            /\ result.val[2] = same

TextEqualityByContentWitness ==
    /\ call.op = "eq"
    /\ call.lhs.source = "Static"
    /\ call.rhs.source = "Owned"
    /\ call.lhs.str = <<"x", "y">>
    /\ call.rhs.str = call.lhs.str
    /\ result.val = <<TRUE, TRUE>>

\* C13: lookup of a name in a domain returns the local binding when there is
\* one, shadowing the parent's; otherwise the parent's answer; and in the
\* global domain, which has no parent, an unbound name is not found.
LookupLocalThenParent ==
    call.op = "lookup" =>
        LET d == call.domain
            n == call.name
        IN  /\ defs[d][n] # None => result.val = defs[d][n]
            /\ (defs[d][n] = None /\ d = "child") =>
                  result.val = defs["global"][n]
            /\ (defs[d][n] = None /\ d = globals) => result.val = None

LookupLocalThenParentWitness ==
    /\ call.op = "lookup"
    /\ call.domain = "child"
    /\ defs["child"][call.name] # None
    /\ defs["global"][call.name] # None
    /\ defs["child"][call.name] # defs["global"][call.name]
    /\ result.val = defs["child"][call.name]

\* C14: run_script_initializer runs the initializer by exactly one path, once:
\* a native method directly with an empty argument list, a bytecode method
\* through the stack frame loop; a failure to create the activation or of the
\* initializer is returned as the failure, and nothing is run again.
NativeRuns(scr, sid) == IF sid <= Len(scr) THEN scr[sid].native ELSE 0
EntryRuns(scr, sid) == IF sid <= Len(scr) THEN scr[sid].entry ELSE 0

InitializerPathStep ==
    /\ \A sid \in 1..Len(scripts') :
          LET n0 == NativeRuns(scripts, sid)
              e0 == EntryRuns(scripts, sid)
              n1 == scripts'[sid].native
              e1 == scripts'[sid].entry
          IN  /\ n1 >= n0 /\ e1 >= e0
              /\ (n1 # n0 \/ e1 # e0) =>
                    /\ Len(frames') = Len(frames) + 1
                    /\ frames'[Len(frames')] = InitFrame(sid)
                    /\ frames'[Len(frames')].args = <<>>
                    /\ IF scripts'[sid].kind = "Native"
                       THEN n1 = n0 + 1 /\ e1 = e0
                       ELSE e1 = e0 + 1 /\ n1 = n0
                    /\ \A o \in 1..Len(scripts') : o # sid =>
                          /\ scripts'[o].native = NativeRuns(scripts, o)
                          /\ scripts'[o].entry = EntryRuns(scripts, o)
    /\ (result' # result /\ result'.status = "Err"
            /\ result'.err \in {"activation", "init"}) =>
          /\ \A sid \in 1..Len(scripts') :
                /\ scripts'[sid].native = NativeRuns(scripts, sid)
                /\ scripts'[sid].entry = EntryRuns(scripts, sid)
          /\ Len(frames') <= Len(frames)
    /\ (frames # <<>> /\ Top.kind = "init" /\ Len(frames') < Len(frames)) =>
          \/ result' = OkGlobals(scripts, Top.sid)
          \/ /\ result' = result
             /\ Len(frames) >= 2
             /\ frames[Len(frames) - 1].kind = "load_abc"
          \/ result'.status = "Err" /\ result'.err = "init"

InitializerOnePath == [][InitializerPathStep]_vars

InitializerOnePathWitness ==
    /\ Idle
    /\ result.status = "Err"
    /\ result.err = "init"
    /\ \E s \in 1..Len(scripts), t \in 1..Len(scripts) :
          /\ scripts[s].kind = "Native"
          /\ scripts[s].native = 1
          /\ scripts[s].entry = 0
          /\ scripts[t].kind = "Entry"
          /\ scripts[t].entry = 1
          /\ scripts[t].native = 0

\* C16: a new interpreter has an empty stack and no prototype cache; with the
\* loader of the specification the cache goes from absent to present at most once, only through
\* load_player_globals, and is never removed or replaced afterwards; the
\* global domain is the same in every state.
NewInterpreter == stack = <<>> /\ system_prototypes = None /\ globals = "global"

HookStep ==
    /\ gloads' = gloads + 1
    /\ result' = Ok("load_player_globals", 0)

CacheSetOnceStep ==
    /\ system_prototypes # None => system_prototypes' = system_prototypes
    /\ system_prototypes' # system_prototypes => HookStep
    /\ globals' = globals

CacheSetOnce == NewInterpreter /\ [][CacheSetOnceStep]_vars

CacheSetOnceWitness ==
    /\ gloads = 2
    /\ globals_loaded
    /\ system_prototypes = CacheOfRun(1)
    /\ result = Ok("load_player_globals", 0)
    /\ stack # <<>>
    /\ globals = "global"

\* C17: pop_args(n) on a stack of k < n values still returns n values: the
\* last k are the stack's values in push order, the first n - k are
\* Undefined, and the stack is left empty.
PopArgsUnderflowPads ==
    (last.op = "pop_args" /\ Len(last.pre) < last.arg) =>
        LET n == last.arg
            k == Len(last.pre)
        IN  /\ Len(last.ret) = n
            /\ \A j \in 1..k : last.ret[n - k + j] = last.pre[j]
            /\ \A j \in 1..(n - k) : last.ret[j] = Undefined
            /\ stack = <<>>
            /\ ~aborted

PopArgsUnderflowPadsWitness ==
    /\ last.op = "pop_args"
    /\ last.arg = 3
    /\ last.pre = <<"a", "b">>
    /\ last.ret = <<Undefined, "a", "b">>
    /\ stack = <<>>

\* C18: when an eager load_abc fails at script i, in instantiating it or in
\* initializing it, load_abc has returned that error at once: no script of a
\* lower index has been instantiated or initialized, and every script of a
\* higher index is still instantiated and initialized, nothing rolled back.
EagerLoadFailed ==
    /\ LoadCalled
    /\ ~call.lazy
    /\ result.op = "load_abc"
    /\ result.status = "Err"
    /\ result.err \in {"script", "activation", "init"}

Instantiated(t, j) == tunits[t].cache[j] # None

StaysInitialized(t, j) ==
    /\ Instantiated(t, j)
    /\ scripts[tunits[t].cache[j]].initialized
    /\ Runs(tunits[t].cache[j]) = 1
    /\ defs[tunits[t].domain][j] = tunits[t].cache[j]

FailedAt(t, i) ==
    /\ result.err = "script" => ~Instantiated(t, i)
    /\ result.err \in {"activation", "init"} =>
          /\ Instantiated(t, i)
          /\ Runs(tunits[t].cache[i]) = (IF result.err = "init" THEN 1 ELSE 0)
    /\ \A j \in 0..(i - 1) : ~Instantiated(t, j)
    /\ \A j \in (i + 1)..(tunits[t].n - 1) : StaysInitialized(t, j)

EagerFailureKeepsPartialLoad ==
    EagerLoadFailed =>
        /\ Idle
        /\ \E i \in 0..(tunits[LoadedUnit].n - 1) : FailedAt(LoadedUnit, i)
        /\ Len(InstEvents) =
              Cardinality({j \in 0..(tunits[LoadedUnit].n - 1) :
                              Instantiated(LoadedUnit, j)})

EagerFailureKeepsPartialLoadWitness ==
    /\ EagerLoadFailed
    /\ result.err = "init"
    /\ tunits[LoadedUnit].n = 2
    /\ FailedAt(LoadedUnit, 0)
    /\ StaysInitialized(LoadedUnit, 1)

\* C19: an eager load_abc interleaves instantiation and initialization: the
\* initializer of script i is forced right after script i is instantiated,
\* before any lower script is instantiated, so while it runs exactly the
\* scripts of index i and above of this container are instantiated.
ForcedRightAfter(k) ==
    IF k < Len(log)
    THEN log[k + 1] = [ev |-> "init", sid |-> log[k].sid]
    ELSE Idle /\ result = Err("load_abc", "activation")

InitializerOfLoadRunning ==
    /\ Len(frames) >= 2
    /\ frames[1].kind = "load_abc"
    /\ ~frames[1].lazy
    /\ frames[2].kind = "init"

EagerInterleaved ==
    /\ (LoadCalled /\ ~call.lazy) =>
          \A k \in 1..Len(log) : log[k].ev = "inst" => ForcedRightAfter(k)
    /\ InitializerOfLoadRunning =>
          LET t == frames[1].tu
              s == frames[2].sid
          IN  /\ scripts[s].tu = t
              /\ \A j \in 0..(tunits[t].n - 1) :
                    Instantiated(t, j) <=> j >= scripts[s].index

EagerInterleavedWitness ==
    /\ InitializerOfLoadRunning
    /\ tunits[frames[1].tu].n = 2
    /\ scripts[frames[2].sid].index = 1
    /\ Instantiated(frames[1].tu, 1)
    /\ ~Instantiated(frames[1].tu, 0)
    /\ stack # <<>>

====
